---- MODULE Spec2Model ----
(***************************************************************************)
(* Model of tasks/build_KE/original_script/a01_build_events.py:           *)
(* build_events, process_single_pdf and validate_relationship_transition. *)
(* The three inference chains and the PDF reader are external; each call  *)
(* to one of them is a nondeterministic choice over what it can do        *)
(* (raise, return nothing, return a structured value).                    *)
(* Scores are held in tenths (0.5 is 5, 1.0 is 10).                       *)
(***************************************************************************)
EXTENDS Integers, Sequences, FiniteSets, TLC

\* ------------------------------------------------------------------ bounds
\* documents in a directory
MaxDocs == 2
\* events and candidate relationships the stubbed service returns in one run
MaxItems == 4

\* --------------------------------------------------------------- constants
UnknownRank == -1
ScoreMin == 0
ScoreMax == 10
DefaultStrength == 5

VARIABLES
    pc,                \* position in build_events
    user_query,        \* argument: "None" or a topic string
    file_path,         \* argument: "None", or the kind of thing the path names
    topic,
    pdf_files,         \* directory mode: the documents globbed, in order
    cur,               \* directory mode: index of the document being processed
    all_events, all_relationships, all_evidence,
    ret,               \* what build_events returned or raised
    dpc,               \* position in process_single_pdf
    pdf_path,          \* the document process_single_pdf was called on
    doc_text,
    events,            \* events with id and reference added
    n_rels,            \* len(relationships_result.relationships)
    i,                 \* index of the candidate the for loop is at
    rel,               \* the loop variable, while live: an accepted candidate
                       \* until the end of its iteration
    key_events, relationships, evidence_records,
    result,            \* what process_single_pdf returned
    next_uuid,         \* uuid.uuid4() as a fresh counter
    items_seen,        \* events and candidates the service has returned so far
    calls,             \* history: the callees that ran for the current document
    iter_calls,        \* history: the callees that ran in the current iteration
    last_call,         \* history: the callee that ran last
    last_read,         \* history: whether the candidate read last named an
                       \* identifier that is not one of this document's events
    exc,               \* history: the exception caught for the current document
    rels_returned,     \* history: what the relationship inference returned for
                       \* the current document: nothing, an empty list, a list
    discarded,         \* history: how many stored relationships the current
                       \* document had when it ended Errored
    outcomes,          \* history: the results of the documents that ended Done
    errored,           \* history: how many documents ended Errored
    v_src, v_tgt, v_out  \* validator harness: inputs and output

bvars == <<pc, user_query, file_path, topic, pdf_files, cur,
           all_events, all_relationships, all_evidence, ret>>
dvars == <<dpc, pdf_path, doc_text, events, n_rels, i, rel, key_events,
           iter_calls,
           relationships, evidence_records, result, next_uuid,
           items_seen, calls, last_call, last_read, exc,
           rels_returned, discarded>>
hvars == <<v_src, v_tgt, v_out>>
gvars == <<outcomes, errored>>
vars == <<bvars, dvars, gvars, hvars>>

\* ------------------------------------------------------------ level order
\* LEVEL_HIERARCHY: lines 130-137
LEVEL_HIERARCHY ==
    [molecular |-> 0, cellular |-> 1, tissue |-> 2,
     organ |-> 3, organism |-> 4, population |-> 5]

\* class BiologicalLevel
BiologicalLevel ==
    {"molecular", "cellular", "tissue", "organ", "organism", "population"}

\* LEVEL_HIERARCHY.get(level, -1)
LevelRankZero(level) ==
    IF level \in DOMAIN LEVEL_HIERARCHY THEN LEVEL_HIERARCHY[level] ELSE 0

LevelRank(level) ==
    IF level \in DOMAIN LEVEL_HIERARCHY THEN LEVEL_HIERARCHY[level] ELSE UnknownRank

AcceptAll(source_event, target_event) ==
    <<TRUE, <<"Valid progression">> >>

AcceptBackward(source_event, target_event) ==
    IF LevelRank(source_event.biological_level) = UnknownRank
          \/ LevelRank(target_event.biological_level) = UnknownRank
    THEN <<FALSE, <<"Unknown biological level: ", source_event.biological_level,
                    " or ", target_event.biological_level>> >>
    ELSE <<TRUE, <<"Valid progression">> >>

validate_relationship_transition(source_event, target_event) ==
    LET src_level == source_event.biological_level
        tgt_level == target_event.biological_level
        src_rank == LevelRank(src_level)
        tgt_rank == LevelRank(tgt_level)
    IN  IF src_rank = UnknownRank \/ tgt_rank = UnknownRank
        THEN <<FALSE, <<"Unknown biological level: ", src_level, " or ", tgt_level>> >>
        ELSE IF tgt_rank < src_rank
        THEN <<FALSE, <<"FORBIDDEN backward progression: ", src_level, " -> ", tgt_level>> >>
        ELSE <<TRUE, <<"Valid progression">> >>

\* ----------------------------------------------------------------- helpers
NoneVal == "None"
NoExc == [kind |-> "", message |-> ""]

\* What an external call can raise.
Faults ==
    {[kind |-> "ConnectionError", message |-> "service unreachable"],
     [kind |-> "ValidationError", message |-> "malformed response"]}

\* Levels the stubbed event inference returns.
LevelSample == {"molecular", "organ"}

\* Raw strength_score values the stubbed scoring inference produces.
ScoreSample == {ScoreMin - 1, ScoreMax, ScoreMax + 1}

Texts == {"", "  ", "text"}

\* file_path: absent, or a path that names a file, a directory or nothing.
PathSample == {NoneVal, "file", "dir", "missing"}

\* str.strip() on the sampled texts
StripNothing(t) == t

Strip(t) == IF t \in {"", "  "} THEN "" ELSE t

\* Path(...).stem of the document path <<"pdf", d>>
Stem(p) == p[2]

PathOf(d) == <<"pdf", d>>

SeqsUpTo(S, n) == UNION {[1..k -> S] : k \in 0..n}

RECURSIVE SeqMap2(_, _, _)
\* events with fresh ids and the reference: lines 173-178
SeqMap2(levels, first_id, work_id) ==
    IF levels = <<>> THEN <<>>
    ELSE <<[id |-> first_id, biological_level |-> Head(levels), reference |-> work_id]>>
         \o SeqMap2(Tail(levels), first_id + 1, work_id)

\* events_dict = {e["id"]: e for e in events}
EventIds(evs) == {evs[k].id : k \in 1..Len(evs)}
EventsDictGet(evs, id) == evs[CHOOSE k \in 1..Len(evs) : evs[k].id = id]

\* key_events[id] = e on an insertion-ordered dict held as a sequence
DictSet(d, e) ==
    IF \E k \in 1..Len(d) : d[k].id = e.id
    THEN [k \in 1..Len(d) |-> IF d[k].id = e.id THEN e ELSE d[k]]
    ELSE Append(d, e)

\* result.get(key, [])
Get(r, key) == IF key \in DOMAIN r THEN r[key] ELSE <<>>

\* the except clause: line 239
ExceptResultNoMessage(p, e) == [path |-> p, error |-> e.kind]

ExceptResultPartial(p, e) ==
    [path |-> p, error |-> e.kind, message |-> e.message,
     key_events |-> key_events, relationships |-> relationships,
     evidence |-> evidence_records]

ExceptResult(p, e) == [path |-> p, error |-> e.kind, message |-> e.message]

\* Field(..., ge=0.0, le=1.0): line 62
StrengthAny(s) == TRUE

StrengthValid(s) == s >= ScoreMin /\ s <= ScoreMax

\* "success" if "error" not in result else "error": line 274
FileStatusAlways(r) == "success"

FileStatus(r) == IF "error" \notin DOMAIN r THEN "success" ELSE "error"

\* src_id not in events_dict or tgt_id not in events_dict: line 196
DanglingSourceOnly(evs, r) == r[1] \notin EventIds(evs)

Dangling(evs, r) == r[1] \notin EventIds(evs) \/ r[2] \notin EventIds(evs)

\* is_file / is_dir / else: lines 268, 277, 297
BranchLenient(kind) == IF kind = "file" THEN "file" ELSE "dir"

Branch(kind) ==
    IF kind = "file" THEN "file" ELSE IF kind = "dir" THEN "dir" ELSE "raise"

\* list.extend: lines 286-288
ExtendReplace(acc, xs) == xs

Extend(acc, xs) == acc \o xs

\* list(key_events.values()): line 233
ReturnedEventsAll(evs, kept) == evs

ReturnedEvents(evs, kept) == kept

\* ------------------------------------------------------------------- Init
NoResult == [path |-> NoneVal]

LocalsInit ==
    /\ doc_text = NoneVal
    /\ events = <<>>
    /\ n_rels = 0
    /\ i = 0
    /\ rel = <<>>
    /\ key_events = <<>>
    /\ relationships = <<>>
    /\ evidence_records = <<>>

\* The state at the call build_events(user_query, file_path).
Entry ==
    /\ pc = "entry"
    /\ topic = NoneVal
    /\ pdf_files = <<>>
    /\ cur = 0
    /\ all_events = <<>>
    /\ all_relationships = <<>>
    /\ all_evidence = <<>>
    /\ ret = [kind |-> "pending"]
    /\ dpc = "idle"
    /\ pdf_path = NoneVal
    /\ LocalsInit
    /\ result = NoResult
    /\ next_uuid = 1
    /\ items_seen = 0
    /\ calls = {}
    /\ iter_calls = {}
    /\ last_call = NoneVal
    /\ last_read = NoneVal
    /\ exc = NoExc
    /\ rels_returned = NoneVal
    /\ discarded = 0
    /\ outcomes = <<>>
    /\ errored = 0

\* A call that gives a topic.
Init ==
    /\ user_query = "endocrine disruption"
    /\ file_path \in PathSample
    /\ Entry
    /\ v_src = NoneVal
    /\ v_tgt = NoneVal
    /\ v_out = <<>>

\* A call that gives a topic or none.
InitAnyQuery ==
    /\ user_query \in {NoneVal, "endocrine disruption"}
    /\ file_path \in PathSample
    /\ Entry
    /\ v_src = NoneVal
    /\ v_tgt = NoneVal
    /\ v_out = <<>>

locals == <<doc_text, events, n_rels, i, rel, key_events, relationships,
           evidence_records>>

\* ------------------------------------------------- process_single_pdf
Called(op) ==
    /\ calls' = calls \cup {op}
    /\ last_call' = op

\* the call process_single_pdf(p, topic, chains): lines 157-159
StartDoc(p) ==
    /\ dpc' = "read"
    /\ pdf_path' = p
    /\ doc_text' = NoneVal
    /\ events' = <<>>
    /\ n_rels' = 0
    /\ i' = 0
    /\ rel' = <<>>
    /\ key_events' = <<>>
    /\ relationships' = <<>>
    /\ evidence_records' = <<>>
    /\ calls' = {}
    /\ iter_calls' = {}
    /\ last_call' = NoneVal
    /\ last_read' = NoneVal
    /\ exc' = NoExc
    /\ rels_returned' = NoneVal
    /\ discarded' = 0
    /\ UNCHANGED <<result, next_uuid, items_seen, gvars>>

\* process_single_pdf returns: its frame is gone
LeaveFrame ==
    /\ doc_text' = NoneVal
    /\ events' = <<>>
    /\ n_rels' = 0
    /\ i' = 0
    /\ rel' = <<>>
    /\ key_events' = <<>>
    /\ relationships' = <<>>
    /\ evidence_records' = <<>>

\* the return at the end of the try block: the pipeline ends Done
Return(r) ==
    /\ result' = r
    /\ dpc' = "returned"
    /\ outcomes' = Append(outcomes, r)
    /\ UNCHANGED <<errored, discarded>>
    /\ LeaveFrame

\* an early return or the return of the except clause: the pipeline ends Errored
Fail(r) ==
    /\ result' = r
    /\ dpc' = "returned"
    /\ errored' = errored + 1
    /\ discarded' = Len(relationships)
    /\ UNCHANGED outcomes
    /\ LeaveFrame

\* an exception inside the try block, caught at line 238
Raise(e) ==
    /\ exc' = e
    /\ Fail(ExceptResult(pdf_path, e))

\* lines 163-165
ReadPdf ==
    /\ dpc = "read"
    /\ Called("read_pdf_text")
    /\ \/ \E e \in Faults : Raise(e)
       \/ \E t \in Texts :
            /\ IF Strip(t) = ""
               THEN Fail([path |-> pdf_path, error |-> "Empty PDF"])
               ELSE /\ doc_text' = t
                    /\ dpc' = "events"
                    /\ UNCHANGED <<events, n_rels, i, rel, key_events, relationships,
                                   evidence_records, result, discarded, gvars>>
            /\ UNCHANGED exc
    /\ UNCHANGED <<bvars, pdf_path, next_uuid, items_seen, last_read,
                   iter_calls, rels_returned, hvars>>

\* lines 168-178
ExtractEvents ==
    /\ dpc = "events"
    /\ Called("extract_events")
    /\ \/ \E e \in Faults :
            /\ Raise(e)
            /\ UNCHANGED <<next_uuid, items_seen>>
       \/ \* events_result is None
          /\ Fail([path |-> pdf_path, error |-> "No events extracted"])
          /\ UNCHANGED <<next_uuid, items_seen, exc>>
       \/ \E levels \in SeqsUpTo(LevelSample, MaxItems - items_seen) :
            /\ IF levels = <<>>
               THEN /\ Fail([path |-> pdf_path, error |-> "No events extracted"])
                    /\ UNCHANGED <<next_uuid, items_seen>>
               ELSE /\ events' = SeqMap2(levels, next_uuid, Stem(pdf_path))
                    /\ next_uuid' = next_uuid + Len(levels)
                    /\ items_seen' = items_seen + Len(levels)
                    /\ dpc' = "rels"
                    /\ UNCHANGED <<doc_text, n_rels, i, rel, key_events, relationships,
                                   evidence_records, result, discarded, gvars>>
            /\ UNCHANGED exc
    /\ UNCHANGED <<bvars, pdf_path, last_read, iter_calls, rels_returned, hvars>>

\* Identifiers the stubbed relationship inference names: those of this
\* document's events, those of events of earlier documents, and 0, which is
\* never handed out.
IdSample == {0} \cup EventIds(events) \cup EventIds(all_events)

\* What the relationship chain returns when it does not raise: nothing, or a
\* RelationshipsList holding n candidates.
RelsNone == [is_none |-> TRUE, n |-> 0]
RelsList(n) == [is_none |-> FALSE, n |-> n]

\* not relationships_result: line 185. A RelationshipsList is truthy whatever
\* its list holds.
NotResultOrEmpty(relationships_result) ==
    relationships_result.is_none \/ relationships_result.n = 0

NotResult(relationships_result) == relationships_result.is_none

\* Lines 181-192. The list returned is read once, in order, by the loop
\* alone: its length is fixed here and each element is drawn when read.
ExtractRelationships ==
    /\ dpc = "rels"
    /\ Called("extract_relationships")
    /\ \/ \E e \in Faults :
            /\ Raise(e)
            /\ UNCHANGED <<items_seen, rels_returned>>
       \/ \E relationships_result \in
                {RelsNone} \cup {RelsList(n) : n \in 0..(MaxItems - items_seen)} :
            /\ rels_returned' = IF relationships_result.is_none THEN "nothing"
                                ELSE IF relationships_result.n = 0 THEN "empty"
                                ELSE "list"
            /\ IF NotResult(relationships_result)
               THEN /\ Fail([path |-> pdf_path, error |-> "No relationships extracted"])
                    /\ UNCHANGED items_seen
               ELSE /\ n_rels' = relationships_result.n
                    /\ i' = 1
                    /\ items_seen' = items_seen + relationships_result.n
                    /\ dpc' = "loop"
                    /\ UNCHANGED <<doc_text, events, rel, key_events, relationships,
                                   evidence_records, result, discarded, gvars>>
            /\ UNCHANGED exc
    /\ UNCHANGED <<bvars, pdf_path, next_uuid, last_read, iter_calls, hvars>>

\* one iteration of the for loop up to the scoring call: lines 194-205
LoopStep ==
    /\ dpc = "loop"
    /\ i <= n_rels
    /\ \E r \in IdSample \X IdSample :
        /\ last_read' = IF r[1] \in EventIds(events) /\ r[2] \in EventIds(events)
                        THEN "resolved" ELSE "dangling"
        /\ IF Dangling(events, r)
           THEN /\ i' = i + 1
                /\ iter_calls' = {}
                /\ UNCHANGED <<dpc, doc_text, events, n_rels, rel, key_events,
                               relationships, evidence_records, calls, last_call,
                               exc, result, discarded, gvars>>
           ELSE IF r[1] \notin EventIds(events) \/ r[2] \notin EventIds(events)
                THEN \* events_dict[...] on an absent key
                     /\ Raise([kind |-> "KeyError", message |-> "id"])
                     /\ iter_calls' = {}
                     /\ UNCHANGED <<calls, last_call>>
                ELSE LET src == EventsDictGet(events, r[1])
                         tgt == EventsDictGet(events, r[2])
                         is_valid == validate_relationship_transition(src, tgt)[1]
                     IN  /\ Called("validate_relationship_transition")
                         /\ iter_calls' = {"validate_relationship_transition"}
                         /\ IF ~is_valid
                            THEN /\ i' = i + 1
                                 /\ UNCHANGED <<dpc, rel, key_events>>
                            ELSE /\ rel' = r
                                 /\ key_events' = DictSet(DictSet(key_events, src), tgt)
                                 /\ dpc' = "score"
                                 /\ UNCHANGED i
                         /\ UNCHANGED <<doc_text, events, n_rels, relationships,
                                        evidence_records, exc, result, discarded, gvars>>
    /\ UNCHANGED <<bvars, pdf_path, next_uuid, items_seen, rels_returned, hvars>>

\* What the scoring chain returns when it does not raise: nothing, or a
\* RelationshipStrength that passed validation.
ScoreNone == [is_none |-> TRUE]
Scored(s) == [is_none |-> FALSE, strength_score |-> s, justification |-> "because"]
Truthy(score) == ~score.is_none

StoredOwnId(score) ==
    LET rel_id == next_uuid
        work_id == Stem(pdf_path)
    IN  /\ relationships' = Append(relationships,
                [relationship_id |-> rel_id,
                 source_event_id |-> rel[1],
                 target_event_id |-> rel[2],
                 relationship_type |-> "leads_to",
                 evidence_strength |->
                     IF Truthy(score) THEN score.strength_score ELSE DefaultStrength,
                 evidence_justification |->
                     IF Truthy(score) THEN score.justification ELSE ""])
        /\ evidence_records' = Append(evidence_records,
                [evidence_id |-> next_uuid + 1,
                 relationship_id |-> next_uuid + 1,
                 source_id |-> <<"OPENALEX:", work_id>>,
                 reference |-> work_id])
        /\ next_uuid' = next_uuid + 2

\* lines 214-229
Stored(score) ==
    LET rel_id == next_uuid
        work_id == Stem(pdf_path)
    IN  /\ relationships' = Append(relationships,
                [relationship_id |-> rel_id,
                 source_event_id |-> rel[1],
                 target_event_id |-> rel[2],
                 relationship_type |-> "leads_to",
                 evidence_strength |->
                     IF Truthy(score) THEN score.strength_score ELSE DefaultStrength,
                 evidence_justification |->
                     IF Truthy(score) THEN score.justification ELSE ""])
        /\ evidence_records' = Append(evidence_records,
                [evidence_id |-> next_uuid + 1,
                 relationship_id |-> rel_id,
                 source_id |-> <<"OPENALEX:", work_id>>,
                 reference |-> work_id])
        /\ next_uuid' = next_uuid + 2

\* the scoring call and the rest of the iteration: lines 208-229
ScoreRelationship ==
    /\ dpc = "score"
    /\ Called("score_relationship")
    /\ iter_calls' = iter_calls \cup {"score_relationship"}
    /\ \/ \E e \in Faults :
            /\ Raise(e)
            /\ UNCHANGED next_uuid
       \/ \E raw \in ScoreSample :
            \* the structured output fails RelationshipStrength's validation
            /\ ~StrengthValid(raw)
            /\ Raise([kind |-> "ValidationError", message |-> "strength_score"])
            /\ UNCHANGED next_uuid
       \/ \E score \in {ScoreNone} \cup {Scored(s) : s \in {r \in ScoreSample : StrengthValid(r)}} :
            /\ Stored(score)
            /\ rel' = <<>>
            /\ i' = i + 1
            /\ dpc' = "loop"
            /\ UNCHANGED <<doc_text, events, n_rels, key_events, result, discarded, gvars, exc>>
    /\ UNCHANGED <<bvars, pdf_path, items_seen, last_read, rels_returned, hvars>>

\* lines 231-236
FinishDoc ==
    /\ dpc = "loop"
    /\ i > n_rels
    /\ Return([path |-> pdf_path,
               key_events |-> ReturnedEvents(events, key_events),
               relationships |-> relationships,
               evidence |-> evidence_records])
    /\ UNCHANGED <<bvars, pdf_path, next_uuid, items_seen,
                   calls, last_call, last_read, iter_calls, exc, rels_returned,
                   hvars>>

\* ------------------------------------------------------------ build_events
Returned(evs, rels, evid, status) ==
    [kind |-> "returned", events |-> evs, relationships |-> rels,
     evidence |-> evid, status |-> status]

Raised(error, message) == [kind |-> "raised", error |-> error, message |-> message]

\* lines 257-265
Enter ==
    /\ pc = "entry"
    /\ IF file_path = NoneVal
       THEN /\ ret' = Raised("ValueError", <<"file_path is required">>)
            /\ pc' = "raised"
            /\ UNCHANGED topic
       ELSE /\ topic' = IF user_query = NoneVal THEN "general" ELSE user_query
            /\ pc' = "dispatch"
            /\ UNCHANGED ret
    /\ UNCHANGED <<user_query, file_path, pdf_files, cur, all_events,
                   all_relationships, all_evidence, dvars, gvars, hvars>>

\* lines 268-269, 277-281, 297-298
Dispatch ==
    /\ pc = "dispatch"
    /\ LET branch == Branch(file_path)
       IN  \/ /\ branch = "file"
              /\ pc' = "file_run"
              /\ StartDoc(PathOf(1))
              /\ UNCHANGED <<pdf_files, cur, all_events, all_relationships,
                             all_evidence, ret>>
           \/ /\ branch = "dir"
              /\ \E n \in 0..MaxDocs : pdf_files' = [k \in 1..n |-> PathOf(k)]
              /\ cur' = 1
              /\ all_events' = <<>>
              /\ all_relationships' = <<>>
              /\ all_evidence' = <<>>
              /\ pc' = "dir_loop"
              /\ UNCHANGED <<ret, dvars, gvars>>
           \/ /\ branch = "raise"
              /\ ret' = Raised("ValueError", <<"File not found: ", file_path>>)
              /\ pc' = "raised"
              /\ UNCHANGED <<pdf_files, cur, all_events, all_relationships,
                             all_evidence, dvars, gvars>>
    /\ UNCHANGED <<user_query, file_path, topic, hvars>>

\* The frame of the finished process_single_pdf call and its result are dead
\* once the caller has read them.
Forget ==
    /\ dpc' = "idle"
    /\ pdf_path' = NoneVal
    /\ doc_text' = NoneVal
    /\ events' = <<>>
    /\ n_rels' = 0
    /\ i' = 0
    /\ rel' = <<>>
    /\ key_events' = <<>>
    /\ relationships' = <<>>
    /\ evidence_records' = <<>>
    /\ result' = NoResult
    /\ calls' = {}
    /\ iter_calls' = {}
    /\ last_call' = NoneVal
    /\ last_read' = NoneVal
    /\ exc' = NoExc
    /\ rels_returned' = NoneVal
    /\ discarded' = 0

\* lines 270-275
FileReturn ==
    /\ pc = "file_run"
    /\ dpc = "returned"
    /\ ret' = Returned(Get(result, "key_events"), Get(result, "relationships"),
                       Get(result, "evidence"), FileStatus(result))
    /\ pc' = "returned"
    /\ Forget
    /\ UNCHANGED <<user_query, file_path, topic, pdf_files, cur, all_events,
                   all_relationships, all_evidence, next_uuid, items_seen, gvars, hvars>>

\* lines 283-284
DirStart ==
    /\ pc = "dir_loop"
    /\ dpc = "idle"
    /\ cur <= Len(pdf_files)
    /\ StartDoc(pdf_files[cur])
    /\ UNCHANGED <<bvars, hvars>>

\* lines 285-288
DirMerge ==
    /\ pc = "dir_loop"
    /\ dpc = "returned"
    /\ IF "error" \notin DOMAIN result
       THEN /\ all_events' = Extend(all_events, Get(result, "key_events"))
            /\ all_relationships' = Extend(all_relationships, Get(result, "relationships"))
            /\ all_evidence' = Extend(all_evidence, Get(result, "evidence"))
       ELSE UNCHANGED <<all_events, all_relationships, all_evidence>>
    /\ cur' = cur + 1
    /\ Forget
    /\ UNCHANGED <<pc, user_query, file_path, topic, pdf_files, ret,
                   next_uuid, items_seen, gvars, hvars>>

\* lines 290-295
DirReturn ==
    /\ pc = "dir_loop"
    /\ dpc = "idle"
    /\ cur > Len(pdf_files)
    /\ ret' = Returned(all_events, all_relationships, all_evidence, "success")
    /\ pc' = "returned"
    /\ UNCHANGED <<user_query, file_path, topic, pdf_files, cur, all_events,
                   all_relationships, all_evidence, dvars, gvars, hvars>>

Next ==
    \/ Enter \/ Dispatch \/ FileReturn \/ DirStart \/ DirMerge \/ DirReturn
    \/ ReadPdf \/ ExtractEvents \/ ExtractRelationships \/ LoopStep
    \/ ScoreRelationship \/ FinishDoc

Spec == Init /\ [][Next]_vars

SpecAnyQuery == InitAnyQuery /\ [][Next]_vars

\* ------------------------------------------------- the validator on its own
\* Level labels given to the validator: the six known ones and two others.
Labels == BiologicalLevel \cup {"subcellular", ""}

InitV ==
    /\ user_query = NoneVal
    /\ file_path = NoneVal
    /\ Entry
    /\ v_src \in Labels
    /\ v_tgt \in Labels
    /\ v_out = <<>>

Validate ==
    /\ v_out = <<>>
    /\ v_out' = validate_relationship_transition(
                    [biological_level |-> v_src], [biological_level |-> v_tgt])
    /\ UNCHANGED <<bvars, dvars, gvars, v_src, v_tgt>>

SpecV == InitV /\ [][Validate]_vars

\* =================================================================== claims
\* The order molecular < cellular < tissue < organ < organism < population,
\* written out as positions in a list.
LevelOrder ==
    <<"molecular", "cellular", "tissue", "organ", "organism", "population">>

PositionOf(level) == CHOOSE k \in 1..Len(LevelOrder) : LevelOrder[k] = level

\* Every relationship of rels joins two events of evs, the target at a level
\* that is not below the source's.
Monotone(evs, rels) ==
    \A k \in 1..Len(rels) :
        \E a, b \in 1..Len(evs) :
            /\ evs[a].id = rels[k].source_event_id
            /\ evs[b].id = rels[k].target_event_id
            /\ PositionOf(evs[b].biological_level) >= PositionOf(evs[a].biological_level)

\* C1: every relationship that build_events returns, and every relationship a
\* document's pipeline has stored or returned, has a target event whose level
\* is equal to or above its source event's level.
C1_Monotonicity ==
    /\ ret.kind = "returned" => Monotone(ret.events, ret.relationships)
    /\ Monotone(events, relationships)
    /\ Monotone(all_events, all_relationships)
    /\ (dpc = "returned" /\ "relationships" \in DOMAIN result)
          => Monotone(result.key_events, result.relationships)

\* C1 witness: a document ended Done with a single relationship, which climbs
\* from molecular to organ; the validator had rejected the candidate read last.
C1_Witness ==
    /\ dpc = "returned"
    /\ "relationships" \in DOMAIN result
    /\ Len(result.relationships) = 1
    /\ last_read = "resolved"
    /\ iter_calls = {"validate_relationship_transition"}
    /\ \E k \in 1..Len(result.relationships) :
          \E a, b \in 1..Len(result.key_events) :
              /\ result.key_events[a].id = result.relationships[k].source_event_id
              /\ result.key_events[b].id = result.relationships[k].target_event_id
              /\ result.key_events[a].biological_level = "molecular"
              /\ result.key_events[b].biological_level = "organ"

Endpoints(rels) ==
    {rels[k].source_event_id : k \in 1..Len(rels)}
        \cup {rels[k].target_event_id : k \in 1..Len(rels)}

Closed(evs, rels) ==
    /\ EventIds(evs) = Endpoints(rels)
    /\ Cardinality(EventIds(evs)) = Len(evs)

\* C2: in every result returned, the events are exactly the endpoints of the
\* relationships, each event once.
C2_Closure ==
    /\ ret.kind = "returned" => Closed(ret.events, ret.relationships)
    /\ (dpc = "returned" /\ "key_events" \in DOMAIN result)
          => Closed(result.key_events, result.relationships)

\* C2 witness: a single-file call returned a relationship and one event, and
\* the service had extracted two events.
C2_Witness ==
    /\ pc = "returned"
    /\ file_path = "file"
    /\ Len(ret.relationships) = 1
    /\ Len(ret.events) = 1
    /\ next_uuid - 1 - 2 * Len(ret.relationships) = 2

\* C3 (as claimed): a scoring call that raises or returns no score does not end
\* the document Errored, and every scoring call made leaves a relationship
\* behind, with strength 0.5 and an empty justification when no score came.
C3_ScoringDegrades ==
    /\ (dpc = "returned" /\ last_call = "score_relationship")
          => "error" \notin DOMAIN result
    /\ (dpc = "loop" /\ "score_relationship" \in iter_calls)
          => relationships # <<>>
    /\ \A k \in 1..Len(relationships) :
          relationships[k].evidence_justification = ""
              => relationships[k].evidence_strength = DefaultStrength

RECURSIVE Concat(_, _)
Concat(rs, key) ==
    IF rs = <<>> THEN <<>> ELSE rs[1][key] \o Concat(Tail(rs), key)

\* C4: a directory call returns the concatenation, in order, of what the
\* documents that ended Done returned, nothing for those that ended Errored,
\* and status "success".
C4_Isolation ==
    /\ (pc = "dir_loop" /\ dpc = "idle") =>
          /\ all_events = Concat(outcomes, "key_events")
          /\ all_relationships = Concat(outcomes, "relationships")
          /\ all_evidence = Concat(outcomes, "evidence")
          /\ Len(outcomes) + errored = cur - 1
    /\ (pc = "returned" /\ file_path = "dir") =>
          /\ ret.events = Concat(outcomes, "key_events")
          /\ ret.relationships = Concat(outcomes, "relationships")
          /\ ret.evidence = Concat(outcomes, "evidence")
          /\ ret.status = "success"
          /\ Len(outcomes) + errored = Len(pdf_files)

\* C4 witness: a directory call returned after one document ended Errored and
\* another ended Done with a relationship.
C4_Witness ==
    /\ pc = "returned"
    /\ file_path = "dir"
    /\ errored = 1
    /\ Len(outcomes) = 1
    /\ ret.relationships # <<>>

\* C5: a single-file call returns status "error" exactly when the file's
\* pipeline ended Errored; a directory call returns "success" whatever its
\* documents did.
C5_StatusAsymmetry ==
    pc = "returned" =>
        /\ file_path = "file" => (ret.status = "error" <=> errored = 1)
        /\ file_path = "file" => ret.status \in {"error", "success"}
        /\ file_path = "dir" => ret.status = "success"

\* C5 witness: a directory call returned "success" although every one of its
\* documents ended Errored.
C5_Witness ==
    /\ pc = "returned"
    /\ file_path = "dir"
    /\ Len(pdf_files) >= 1
    /\ errored = Len(pdf_files)
    /\ ret.status = "success"

InBounds(rels) ==
    \A k \in 1..Len(rels) :
        /\ rels[k].evidence_strength >= ScoreMin
        /\ rels[k].evidence_strength <= ScoreMax

\* C6: every relationship stored, merged or returned has a strength between
\* 0 and 1.
C6_ScoreBound ==
    /\ InBounds(relationships)
    /\ InBounds(all_relationships)
    /\ ret.kind = "returned" => InBounds(ret.relationships)

\* C6 witness: a result was returned that holds a relationship scored by the
\* service and one that got the default.
C6_Witness ==
    /\ ret.kind = "returned"
    /\ \E k \in 1..Len(ret.relationships) :
          ret.relationships[k].evidence_justification = ""
    /\ \E k \in 1..Len(ret.relationships) :
          ret.relationships[k].evidence_justification # ""

Known(level) == \E k \in 1..Len(LevelOrder) : LevelOrder[k] = level

\* C7: on every pair of labels the validator returns a pair (accepted, reason);
\* it rejects when a label is none of the six levels, rejects when both are
\* known and the target is below the source, and accepts otherwise; a
\* rejection's reason names both labels.
C7_ValidatorTotal ==
    v_out # <<>> =>
        /\ Len(v_out) = 2
        /\ v_out[1] \in BOOLEAN
        /\ (~Known(v_src) \/ ~Known(v_tgt)) => ~v_out[1]
        /\ (Known(v_src) /\ Known(v_tgt) /\ PositionOf(v_tgt) < PositionOf(v_src))
              => ~v_out[1]
        /\ (Known(v_src) /\ Known(v_tgt) /\ PositionOf(v_tgt) >= PositionOf(v_src))
              => v_out[1]
        /\ ~v_out[1] => /\ \E k \in 1..Len(v_out[2]) : v_out[2][k] = v_src
                        /\ \E k \in 1..Len(v_out[2]) : v_out[2][k] = v_tgt

\* C7 witness: the validator ran on an unrecognised source label and a known
\* target label and rejected the pair.
C7_Witness ==
    /\ v_src = "subcellular"
    /\ v_tgt = "molecular"
    /\ v_out # <<>>
    /\ ~v_out[1]

\* C8: reading a candidate that names an identifier which is not one of this
\* document's events only advances the loop: no validator or scorer call, no
\* relationship, evidence or retained event, and the pipeline stays in the loop.
C8_DanglingDropped ==
    [][(dpc = "loop" /\ i <= n_rels /\ last_read' = "dangling") =>
          /\ dpc' = "loop"
          /\ i' = i + 1
          /\ iter_calls' = {}
          /\ UNCHANGED <<calls, last_call, key_events, relationships,
                         evidence_records, result, exc, gvars>>]_vars

\* C8 witness: a dangling candidate was read and the loop moved past it.
C8_Witness ==
    /\ dpc = "loop"
    /\ last_read = "dangling"
    /\ i = 2
    /\ n_rels = 2

NothingRan ==
    /\ dpc = "idle"
    /\ cur = 0
    /\ calls = {}
    /\ errored = 0
    /\ outcomes = <<>>
    /\ ret.kind # "returned"

\* C9 (as claimed): a call without a topic, without a path, or with a path that
\* is neither a file nor a directory ends raised, and no pipeline or inference
\* call runs and no result is returned.
C9_InputErrors ==
    (user_query = NoneVal \/ file_path \notin {"file", "dir"}) =>
        /\ pc \in {"entry", "dispatch", "raised"}
        /\ NothingRan

\* C9 (amended): a call without a path, or with a path that is neither a file
\* nor a directory, ends raised with a ValueError, and no pipeline or inference
\* call runs and no result is returned; a call without a topic is not an
\* error: the topic becomes "general".
C9_PathErrors ==
    /\ file_path \notin {"file", "dir"} =>
          /\ pc \in {"entry", "dispatch", "raised"}
          /\ NothingRan
    /\ file_path = NoneVal => pc \in {"entry", "raised"}
    /\ pc = "raised" <=> ret.kind = "raised"
    /\ pc = "raised" => ret.error = "ValueError"
    /\ (user_query = NoneVal /\ pc \notin {"entry", "raised"}) => topic = "general"

\* C9 witness: a call without a topic on a path that names nothing has raised.
C9_Witness ==
    /\ user_query = NoneVal
    /\ file_path = "missing"
    /\ pc = "raised"
    /\ ret.kind = "raised"

\* C10: an exception raised while a document is processed ends that document
\* with the descriptor {path, error: its kind, message: its message}, and once
\* the path is a file or a directory build_events does not raise.
C10_FaultAbsorbed ==
    /\ exc # NoExc =>
          /\ dpc = "returned"
          /\ result = [path |-> pdf_path, error |-> exc.kind, message |-> exc.message]
    /\ file_path \in {"file", "dir"} => pc # "raised"
    /\ pc = "raised" => errored = 0 /\ dpc = "idle"

\* C10 witness: the scoring call raised in the second document of a directory
\* and the document returned an error descriptor.
C10_Witness ==
    /\ pc = "dir_loop"
    /\ cur = 2
    /\ dpc = "returned"
    /\ last_call = "score_relationship"
    /\ exc # NoExc
    /\ "message" \in DOMAIN result

EmptyResult(p) ==
    [path |-> p, key_events |-> <<>>, relationships |-> <<>>, evidence |-> <<>>]

\* C11: when the relationship inference returns a structured result with an
\* empty list, the document ends Done with no events, relationships or
\* evidence, and a single-file call then returns three empty lists with status
\* "success"; the document ends with the error "No relationships extracted"
\* exactly when the inference returned nothing.
C11_EmptyListDone ==
    /\ [](/\ rels_returned = "empty" => dpc \in {"loop", "returned"}
          /\ (rels_returned = "empty" /\ dpc = "loop") => (n_rels = 0 /\ discarded = 0)
          /\ (rels_returned = "empty" /\ dpc = "returned") =>
                result = EmptyResult(pdf_path)
          /\ (/\ dpc = "returned"
              /\ "error" \in DOMAIN result
              /\ result.error = "No relationships extracted")
                <=> rels_returned = "nothing")
    /\ [][(pc = "file_run" /\ dpc = "returned" /\ rels_returned = "empty") =>
              ret' = Returned(<<>>, <<>>, <<>>, "success")]_vars

\* C11 witness: the only document of a single-file call ended Done after the
\* relationship inference returned an empty list.
C11_Witness ==
    /\ pc = "file_run"
    /\ dpc = "returned"
    /\ rels_returned = "empty"
    /\ "error" \notin DOMAIN result
    /\ last_call = "extract_relationships"

\* Each relationship of rels has exactly one record of evid that names it, each
\* record of evid names a relationship of rels, and a record's reference is the
\* reference of the events of evs its relationship joins.
OneToOne(evs, rels, evid) ==
    /\ Len(evid) = Len(rels)
    /\ \A k \in 1..Len(rels) :
          Cardinality({j \in 1..Len(evid) :
                          evid[j].relationship_id = rels[k].relationship_id}) = 1
    /\ \A j \in 1..Len(evid) :
          \E k \in 1..Len(rels) :
              /\ rels[k].relationship_id = evid[j].relationship_id
              /\ \E a, b \in 1..Len(evs) :
                    /\ evs[a].id = rels[k].source_event_id
                    /\ evs[b].id = rels[k].target_event_id
                    /\ evs[a].reference = evid[j].reference
                    /\ evs[b].reference = evid[j].reference

\* C12: in every result build_events returns, in every result a document that
\* ended Done returns, and in what a directory call has merged so far,
\* evidence records and relationships are paired one to one by relationship_id
\* and a record's reference is that of its relationship's endpoint events.
C12_EvidencePaired ==
    /\ ret.kind = "returned" => OneToOne(ret.events, ret.relationships, ret.evidence)
    /\ OneToOne(all_events, all_relationships, all_evidence)
    /\ (dpc = "returned" /\ "evidence" \in DOMAIN result)
          => OneToOne(result.key_events, result.relationships, result.evidence)

\* C12 witness: a directory call returned two relationships that come from two
\* documents, with two evidence records of different references.
C12_Witness ==
    /\ pc = "returned"
    /\ file_path = "dir"
    /\ Len(ret.relationships) = 2
    /\ Len(ret.evidence) = 2
    /\ ret.evidence[1].reference # ret.evidence[2].reference

\* The stage a callee belongs to; validation and scoring are told apart by
\* ValidationStage and ScoringStage.
StageOf(op) ==
    IF op = "read_pdf_text" THEN 1
    ELSE IF op = "extract_events" THEN 2
    ELSE IF op = "extract_relationships" THEN 3
    ELSE IF op \in {"validate_relationship_transition", "score_relationship"} THEN 4
    ELSE 0

\* Within one document the first three stages have run, each before the next,
\* before any candidate is validated or scored, and no call of an earlier
\* stage follows a call of a later one.
StagesInOrder ==
    /\ [](/\ \A op \in calls : \A k \in 1..(StageOf(op) - 1) :
                  \E before \in calls : StageOf(before) = k
          /\ "score_relationship" \in calls
                => "validate_relationship_transition" \in calls)
    /\ [][last_call' = NoneVal \/ StageOf(last_call') >= StageOf(last_call)]_vars

\* The candidate r joins two events of evs, the target not below the source.
AcceptedPair(evs, r) ==
    /\ r # <<>>
    /\ \E a, b \in 1..Len(evs) :
          /\ evs[a].id = r[1]
          /\ evs[b].id = r[2]
          /\ PositionOf(evs[b].biological_level) >= PositionOf(evs[a].biological_level)

\* C13 (as claimed): the stages run in order and every candidate has been
\* through the validator before the first scoring call: once the scorer has
\* been called for a document, the validator is not called for it again.
C13_ValidatedBeforeScoring ==
    /\ StagesInOrder
    /\ [][("score_relationship" \in calls /\ last_call' # last_call)
              => last_call' # "validate_relationship_transition"]_vars

\* C13 (amended): the stages run in order up to relationship extraction;
\* validation and scoring then alternate candidate by candidate: a scoring call
\* is issued only in an iteration whose only earlier call is the validator's,
\* on a candidate the validator accepted.
C13_ValidatedThenScored ==
    /\ StagesInOrder
    /\ [][("score_relationship" \in iter_calls' /\ "score_relationship" \notin iter_calls)
              => /\ iter_calls = {"validate_relationship_transition"}
                 /\ last_call = "validate_relationship_transition"
                 /\ AcceptedPair(events, rel)]_vars

\* C13 witness: the validator ran on a later candidate after the scorer had
\* been called for an earlier one of the same document.
C13_Witness ==
    /\ "score_relationship" \in calls
    /\ last_call = "validate_relationship_transition"
    /\ relationships # <<>>
    /\ i = 2

\* A text with nothing but white space in it.
IsBlank(t) == t \in {"", "  "}

\* The names the reasons go by, for the error texts of lines 165 and 170.
ReasonOf(error) ==
    IF error = "Empty PDF" THEN "empty document"
    ELSE IF error = "No events extracted" THEN "no events extracted"
    ELSE error

ErroredWith(reason) ==
    /\ dpc = "returned"
    /\ "error" \in DOMAIN result
    /\ "message" \notin DOMAIN result
    /\ ReasonOf(result.error) = reason

\* C14: a document whose text is blank ends Errored for the reason "empty
\* document" after the reader alone was called; a document for which the event
\* inference returned nothing or no event ends Errored for the reason "no
\* events extracted" after the reader and the event inference alone were
\* called; no stage past text acquisition holds a blank text, none past event
\* extraction holds no event; and the only step after Errored is the caller
\* taking the result, with no further call.
C14_EarlyFailures ==
    /\ [](/\ dpc \in {"events", "rels", "loop", "score"} => ~IsBlank(doc_text)
          /\ dpc \in {"rels", "loop", "score"} => events # <<>>
          /\ (dpc = "returned" /\ exc = NoExc /\ calls = {"read_pdf_text"})
                => ErroredWith("empty document")
          /\ ErroredWith("empty document") => calls = {"read_pdf_text"}
          /\ (dpc = "returned" /\ exc = NoExc
                  /\ calls = {"read_pdf_text", "extract_events"})
                => ErroredWith("no events extracted")
          /\ ErroredWith("no events extracted")
                => calls = {"read_pdf_text", "extract_events"})
    /\ [][(dpc = "returned" /\ "error" \in DOMAIN result)
              => (dpc' = "idle" /\ calls' = {} /\ last_call' = NoneVal)]_vars

\* C14 witness: the second document of a directory ended Errored because the
\* event inference gave no event, after the first had ended Errored too.
C14_Witness ==
    /\ pc = "dir_loop"
    /\ cur = 2
    /\ errored = 2
    /\ ErroredWith("no events extracted")
    /\ last_call = "extract_events"

OutputKeys == {"key_events", "relationships", "evidence"}

\* C15: a document that ends Errored returns none of the events, relationships
\* or evidence it had accumulated, a directory call merges nothing from it, and
\* a single-file call that returns status "error" returns three empty lists; a
\* document that ends Done returns every relationship and evidence record it
\* stored and every event it retained, and a directory call merges all of them.
C15_AllOrNothing ==
    /\ [](/\ (dpc = "returned" /\ "error" \in DOMAIN result)
                => DOMAIN result \cap OutputKeys = {}
          /\ (dpc = "returned" /\ "error" \notin DOMAIN result)
                => (OutputKeys \subseteq DOMAIN result /\ discarded = 0)
          /\ (pc = "returned" /\ file_path = "file" /\ ret.status = "error")
                => (ret.events = <<>> /\ ret.relationships = <<>> /\ ret.evidence = <<>>))
    /\ [][(dpc \in {"loop", "score"} /\ dpc' = "returned") =>
              IF "error" \in DOMAIN result'
              THEN discarded' = Len(relationships)
              ELSE /\ result'.relationships = relationships
                   /\ result'.evidence = evidence_records
                   /\ result'.key_events = key_events]_vars
    /\ [][(pc = "dir_loop" /\ dpc = "returned") =>
              IF "error" \in DOMAIN result
              THEN UNCHANGED <<all_events, all_relationships, all_evidence>>
              ELSE /\ all_events' = all_events \o result.key_events
                   /\ all_relationships' = all_relationships \o result.relationships
                   /\ all_evidence' = all_evidence \o result.evidence]_vars
    /\ [][(pc = "file_run" /\ dpc = "returned" /\ "error" \notin DOMAIN result) =>
              ret' = Returned(result.key_events, result.relationships,
                              result.evidence, "success")]_vars

\* C15 witness: the only document of a single-file call ended Errored by a
\* fault of the scoring call after it had stored a relationship.
C15_Witness ==
    /\ pc = "file_run"
    /\ dpc = "returned"
    /\ exc # NoExc
    /\ last_call = "score_relationship"
    /\ discarded >= 1
    /\ "error" \in DOMAIN result

====
